---- MODULE Spec2Model ----
(***************************************************************************)
(* Model of put_ou_cost_category.py: the organization-structure pass       *)
(* (get_organization_structure / get_ou_name), the rule compiler           *)
(* (build_cost_category_rules), the resource locator                      *)
(* (find_cost_category_arn) and the reconciler (put_cost_category), driven *)
(* by main.  Every remote call is one step and may fail.                   *)
(*                                                                         *)
(* Strings that the program concatenates or sorts (OU names, category      *)
(* labels) are sequences of character codes; opaque identifiers (account   *)
(* ids, OU ids, ARNs) are TLA+ values compared by equality only.           *)
(***************************************************************************)
EXTENDS Integers, Sequences, FiniteSets, TLC

(* ------------------------------ bounds --------------------------------- *)
MaxAccounts == 2
MaxDepth == 2
MaxWalk == 3
MaxPages == 3
MaxEntries == 2
MaxPrefix == 2
MaxPasses == 2

(* ------------------------- program constants --------------------------- *)
\* "Root"
ROOT_CATEGORY_NAME == <<82, 111, 111, 116>>
\* "-"
CATEGORY_NAME_SEPARATOR == <<45>>
\* "Uncategorized" (only passed through, never inspected)
DEFAULT_COST_CATEGORY_VALUE == "Uncategorized"

\* line 194: the provider's cap on the number of rules
RuleLimit == 500
\* line 199: the provider's cap on the accounts of one rule
AccountLimit == 1000

\* python None where the program holds a string (an ARN) or nothing
None == "None"
\* python None where the program holds a pagination token; token i is the
\* cursor of page i
NoToken == 0

(* ------------------------------ inputs --------------------------------- *)
AccountIds == {<<"acct", i>> : i \in 1..MaxAccounts}
OuIds == {<<"ou", 1>>, <<"ou", 2>>}
NoChild == <<"none", 0>>
\* display names an OU may carry: "A" or "Root" for the first OU, "B" or
\* "Root" for the second
OuNameInputs(ou) == {IF ou[2] = 1 THEN <<65>> ELSE <<66>>, ROOT_CATEGORY_NAME}
RootParent == [Id |-> <<"r", 0>>, Type |-> "ROOT"]
OuParent(ou) == [Id |-> ou, Type |-> "ORGANIZATIONAL_UNIT"]
OtherParent == [Id |-> <<"p", 0>>, Type |-> "POLICY"]
\* what list_parents may answer for a child: no parent, the root, an OU,
\* or a parent of an unexpected type
ParentsInputs(child) ==
    {<<>>, <<RootParent>>, <<OtherParent>>} \cup {<<OuParent(o)>> : o \in OuIds \ {child}}
\* account enumerations: the first n account ids, n = 0..MaxAccounts (ids are
\* opaque, so the enumeration order stands for any order)
AccountListInputs == {[i \in 1..n |-> <<"acct", i>>] : n \in 0..MaxAccounts}

(* --------------------------- python values ----------------------------- *)
\* Values whose type the quota check depends on carry it: a dict's val is a
\* function from keys, a list's val is a sequence.
PyDict(f) == [type |-> "dict", val |-> f]
PyList(items) == [type |-> "list", val |-> items]
PyStr(str) == [type |-> "str", val |-> str]
PyInt(n) == [type |-> "int", val |-> n]
PyExc(name) == [type |-> "exc", val |-> name]

\* obj[key]; an exception raised further in propagates
GetItem(obj, key) ==
    IF obj.type = "exc" THEN obj
    ELSE IF obj.type = "dict"
    THEN IF key \in DOMAIN obj.val THEN obj.val[key] ELSE PyExc("KeyError")
    ELSE PyExc("TypeError")

\* len(obj)
PyLen(obj) ==
    IF obj.type = "exc" THEN obj
    ELSE IF obj.type = "list" THEN PyInt(Len(obj.val))
    ELSE IF obj.type = "str" THEN PyInt(Len(obj.val))
    ELSE IF obj.type = "dict" THEN PyInt(Cardinality(DOMAIN obj.val))
    ELSE PyExc("TypeError")

\* lines 149-152: the rule of one category
CategoryRule(category_name, account_ids) ==
    PyDict([Value |-> category_name,
            Rule |-> PyDict([Dimensions |->
                PyDict([Key |-> PyStr("LINKED_ACCOUNT"),
                        Values |-> PyList(account_ids),
                        MatchOptions |-> PyList(<<"EQUALS">>)])])])

(* ---------------------- inputs of put_cost_category -------------------- *)
CostCategoryName == "cc"
EffectiveStart == "2024-01-01T00:00:00Z"

\* rules a caller may pass: well-formed with 1, 0, 1000 or 1001 accounts, a
\* dict without 'Rule', a dict whose Values has no length, and a rule that is
\* a string instead of a dict
RuleKinds == {"one", "zero", "full", "over", "nokey", "nolen", "notdict"}
\* "K"
RuleLabel == <<75>>
RuleOfKind(kind) ==
    CASE kind = "one" -> CategoryRule(RuleLabel, <<1>>)
      [] kind = "zero" -> CategoryRule(RuleLabel, <<>>)
      [] kind = "full" -> CategoryRule(RuleLabel, [i \in 1..AccountLimit |-> i])
      [] kind = "over" -> CategoryRule(RuleLabel, [i \in 1..(AccountLimit + 1) |-> i])
      [] kind = "nokey" -> PyDict([Value |-> RuleLabel])
      [] kind = "nolen" ->
            PyDict([Value |-> RuleLabel,
                    Rule |-> PyDict([Dimensions |-> PyDict([Values |-> PyInt(7)])])])
      [] kind = "notdict" -> PyStr("rule")
\* a rule list: up to MaxPrefix rules of any kind, then `pad` ordinary rules
RuleKindLists ==
    {k \in UNION {[1..n -> RuleKinds] : n \in 0..MaxPrefix} : TRUE}
PadInputs == {0, RuleLimit - 1, RuleLimit}
RuleListOf(kinds, pad) ==
    [i \in 1..(Len(kinds) + pad) |->
        IF i <= Len(kinds) THEN RuleOfKind(kinds[i]) ELSE RuleOfKind("one")]

\* entries of the definition listing: the requested name with a handle, the
\* requested name with an empty handle, another name
EntryInputs ==
    {[Name |-> CostCategoryName, CostCategoryArn |-> "arn:1"],
     [Name |-> CostCategoryName, CostCategoryArn |-> "arn:2"],
     [Name |-> CostCategoryName, CostCategoryArn |-> ""],
     [Name |-> "other", CostCategoryArn |-> "arn:3"]}
EntryLists(maxEntries) == UNION {[1..n -> EntryInputs] : n \in 0..maxEntries}
\* listings of exactly n pages holding at most maxEntries entries in all
RECURSIVE ListingsOf(_, _)
ListingsOf(n, maxEntries) ==
    IF n = 0 THEN {<<>>}
    ELSE UNION {{<<first>> \o rest : rest \in ListingsOf(n - 1, maxEntries - Len(first))} :
                    first \in EntryLists(maxEntries)}
\* listings of 1..maxPages pages holding at most maxEntries entries in all
EntryListings(maxPages, maxEntries) ==
    UNION {ListingsOf(n, maxEntries) : n \in 1..maxPages}
\* the pages of a listing: every page but the last carries the cursor of the
\* next page
PagesOf(l) ==
    [i \in 1..Len(l) |->
        [CostCategoryReferences |-> l[i],
         NextToken |-> IF i < Len(l) THEN i + 1 ELSE NoToken]]
ListingInputs == {PagesOf(l) : l \in EntryListings(MaxPages, MaxEntries)}
SmallListingInputs == {PagesOf(l) : l \in EntryListings(1, 1)}

VARIABLES
    pc,               \* control location of the run
    raised,           \* None, or the exception that ended the run
    all_accounts,     \* organization: what list_accounts enumerates
    parents,          \* organization: child id -> Parents of list_parents
    ou_names,         \* organization: OU id -> display name
    max_depth,        \* argument of get_organization_structure
    ou_name_cache,    \* module-level cache {ou_id: ou_name}
    structure,        \* dict label -> list of account ids
    account_count,    \* index of the account being processed
    path_components,  \* names collected by the current walk
    current_child_id, \* child whose parent is looked up next
    walks,            \* history: one record per finished walk
    path_ous,         \* history: the OU ids behind path_components
    describe_calls,   \* history: the describe_organizational_unit calls of the pass
    remote_log,       \* history: every remote call of the run and its outcome
    passes,           \* history: structure passes started in this process
    last_structure,   \* history: what the previous completed pass returned
    last_names,       \* history: the OU names at the previous completed pass
    rules,            \* argument of put_cost_category
    pages,            \* remote: the definition listing, page by page
    next_token,       \* find_cost_category_arn: cursor of the next request
    page_count,       \* find_cost_category_arn: requests issued
    list_requests,    \* history: the NextToken of every list request
    cost_category_arn,\* what find_cost_category_arn returned
    mutations,        \* history: every create/update call issued
    response,         \* the response of the create/update call
    put_result        \* what put_cost_category returned

orgVars == <<all_accounts, parents, ou_names>>
structVars == <<max_depth, ou_name_cache, structure, account_count,
                path_components, current_child_id, walks, path_ous, describe_calls>>
passVars == <<passes, last_structure, last_names>>
putVars == <<rules, pages, next_token, page_count, list_requests,
             cost_category_arn, mutations, response, put_result>>
vars == <<pc, raised, remote_log, orgVars, structVars, passVars, putVars>>

(* --------------------------- pure helpers ------------------------------ *)
Min(a, b) == IF a <= b THEN a ELSE b

Reverse(s) == [i \in 1..Len(s) |-> s[Len(s) + 1 - i]]

\* python: s[:n] for n >= 0
Prefix(s, n) == SubSeq(s, 1, Min(n, Len(s)))

\* python: sep.join(parts)
RECURSIVE Join(_, _)
Join(sep, parts) ==
    IF Len(parts) = 0 THEN <<>>
    ELSE IF Len(parts) = 1 THEN parts[1]
    ELSE parts[1] \o sep \o Join(sep, Tail(parts))

\* a slip: the path is not cut at the depth
CategoryNameUncut(path, depth) ==
    IF Len(path) > 0
    THEN Join(CATEGORY_NAME_SEPARATOR, path)
    ELSE ROOT_CATEGORY_NAME

\* lines 124-127: the label of a resolved (root-to-leaf) path
CategoryName(path, depth) ==
    IF Len(path) > 0
    THEN Join(CATEGORY_NAME_SEPARATOR, Prefix(path, depth))
    ELSE ROOT_CATEGORY_NAME

\* a slip: a label seen again starts a new list
AddAccountOverwriting(struct, label, account_id) ==
    IF label \in DOMAIN struct
    THEN [struct EXCEPT ![label] = <<account_id>>]
    ELSE struct @@ (label :> <<account_id>>)

\* a slip: only the first account of a label is filed
AddAccountFirstOnly(struct, label, account_id) ==
    IF label \in DOMAIN struct THEN struct
    ELSE struct @@ (label :> <<account_id>>)

\* lines 129-130
AddAccount(struct, label, account_id) ==
    IF label \in DOMAIN struct
    THEN [struct EXCEPT ![label] = Append(@, account_id)]
    ELSE struct @@ (label :> <<account_id>>)

\* a slip: the root key is not added
EnsureRootSkipped(struct) == struct

\* line 133
EnsureRoot(struct) ==
    IF ROOT_CATEGORY_NAME \in DOMAIN struct THEN struct
    ELSE struct @@ (ROOT_CATEGORY_NAME :> <<>>)

EmptyDict == [x \in {} |-> x]

(* ------------------- get_organization_structure ------------------------ *)
\* a slip: the failed step is tried again
RaiseAndRetry(exc) ==
    /\ raised' = exc
    /\ pc' = pc

\* lines 268-272: nothing between a raise and the top level catches it
Raise(exc) ==
    /\ raised' = exc
    /\ pc' = "raised"

\* a remote call is issued and returns (ok) or raises
Remote(api, ok) == remote_log' = Append(remote_log, [api |-> api, ok |-> ok])

\* a slip: the cache outlives the pass
KeepCache(cache) == cache

\* line 86
ClearCache(cache) == EmptyDict

\* a slip: the cache is never consulted
CacheMiss(cache, ou_id) == FALSE

\* line 72
CacheHit(cache, ou_id) == ou_id \in DOMAIN cache

\* lines 84-86: a pass starts with an empty structure and a cleared cache
StartPass ==
    /\ structure' = EmptyDict
    /\ ou_name_cache' = ClearCache(ou_name_cache)
    /\ describe_calls' = <<>>
    /\ walks' = <<>>
    /\ account_count' = 0
    /\ path_components' = <<>>
    /\ path_ous' = <<>>
    /\ current_child_id' = NoChild
    /\ passes' = passes + 1
    /\ pc' = "list_accounts"
    /\ UNCHANGED <<max_depth, putVars>>

\* line 252: main calls get_organization_structure
GetOrganizationStructure ==
    /\ pc = "main"
    /\ StartPass
    /\ UNCHANGED <<raised, remote_log, orgVars, last_structure, last_names>>

\* lines 89-104: the account enumeration; no account gives {"Root": []}
ListAccounts ==
    /\ pc = "list_accounts"
    /\ \/ /\ Raise("ClientError")
          /\ Remote("list_accounts", FALSE)
          /\ UNCHANGED <<structure, account_count, path_components, current_child_id>>
       \/ /\ all_accounts = <<>>
          /\ Remote("list_accounts", TRUE)
          /\ structure' = (ROOT_CATEGORY_NAME :> <<>>)
          /\ pc' = "structure_returned"
          /\ UNCHANGED <<raised, account_count, path_components, current_child_id>>
       \/ /\ all_accounts # <<>>
          /\ Remote("list_accounts", TRUE)
          /\ account_count' = 1
          /\ path_components' = <<>>
          /\ current_child_id' = all_accounts[1]
          /\ pc' = "list_parents"
          /\ UNCHANGED <<raised, structure>>
    /\ UNCHANGED <<orgVars, max_depth, ou_name_cache, walks, path_ous, describe_calls,
                   passVars, putVars>>

\* lines 122-136 (and 98-104 for the next account): the walk of the current
\* account ended with `collected` names, leaf first; label the account, file
\* it, and go on to the next account or return the structure
FinishWalk(collected, kept, stop) ==
    LET account_id == all_accounts[account_count]
        path == Reverse(kept)
        category_name == CategoryName(path, max_depth)
        filed == AddAccount(structure, category_name, account_id)
    IN  /\ walks' = Append(walks, [account |-> account_id, path |-> path,
                                   stop |-> stop, collected |-> collected,
                                   ous |-> path_ous, label |-> category_name])
        /\ path_ous' = <<>>
        /\ IF account_count < Len(all_accounts)
           THEN /\ structure' = filed
                /\ account_count' = account_count + 1
                /\ path_components' = <<>>
                /\ current_child_id' = all_accounts[account_count + 1]
                /\ pc' = "list_parents"
           ELSE /\ structure' = EnsureRoot(filed)
                /\ pc' = "structure_returned"
                /\ UNCHANGED <<account_count, path_components, current_child_id>>
        /\ UNCHANGED raised

\* a slip: a broken chain keeps the collected names
KeptOnBrokenChain(collected) == collected

\* lines 109-113: what the walk keeps when list_parents returns no parent
KeptOnNoParent(collected) == <<>>

\* a variant: an unexpected parent type drops the collected names
DroppedOnUnexpectedType(collected) == <<>>

\* line 121: what the walk keeps when the parent has an unexpected type
KeptOnUnexpectedType(collected) == collected

\* lines 105-121: one list_parents call of the walk; an OU parent whose name
\* is cached is appended at once (get_ou_name, lines 72-73), otherwise the
\* name lookup is the next remote call
ListParents ==
    /\ pc = "list_parents"
    /\ Len(path_components) < MaxWalk
    /\ \/ /\ Raise("ClientError")
          /\ Remote("list_parents", FALSE)
          /\ UNCHANGED <<structure, account_count, path_components,
                         current_child_id, walks, path_ous>>
       \/ LET ps == parents[current_child_id] IN
          /\ Remote("list_parents", TRUE)
          /\ IF ps = <<>>
             THEN FinishWalk(path_components, KeptOnNoParent(path_components),
                             IF path_components = <<>> THEN "direct" ELSE "broken")
             ELSE LET parent == ps[1] IN
                  IF parent.Type = "ORGANIZATIONAL_UNIT"
                  THEN /\ IF CacheHit(ou_name_cache, parent.Id)
                          THEN /\ path_components' =
                                      Append(path_components, ou_name_cache[parent.Id])
                               /\ path_ous' = Append(path_ous, parent.Id)
                               /\ current_child_id' = parent.Id
                               /\ pc' = "list_parents"
                          ELSE /\ pc' = "describe_ou"
                               /\ UNCHANGED <<path_components, path_ous, current_child_id>>
                       /\ UNCHANGED <<raised, structure, account_count, walks>>
                  ELSE IF parent.Type = "ROOT"
                  THEN FinishWalk(path_components, path_components, "root")
                  ELSE FinishWalk(path_components, KeptOnUnexpectedType(path_components),
                                  "unexpected")
    /\ UNCHANGED <<orgVars, max_depth, ou_name_cache, describe_calls, passVars, putVars>>

\* lines 75-79 and 118-119: get_ou_name on a cache miss
DescribeOrganizationalUnit ==
    /\ pc = "describe_ou"
    /\ LET ou_id == parents[current_child_id][1].Id IN
       /\ \/ /\ Raise("ClientError")
             /\ Remote("describe_organizational_unit", FALSE)
             /\ describe_calls' = Append(describe_calls, [ou |-> ou_id, name |-> <<>>, ok |-> FALSE])
             /\ UNCHANGED <<ou_name_cache, path_components, path_ous, current_child_id>>
          \/ LET name == ou_names[ou_id] IN
             /\ Remote("describe_organizational_unit", TRUE)
             /\ describe_calls' = Append(describe_calls, [ou |-> ou_id, name |-> name, ok |-> TRUE])
             /\ ou_name_cache' = (ou_id :> name) @@ ou_name_cache
             /\ path_components' = Append(path_components, name)
             /\ path_ous' = Append(path_ous, ou_id)
             /\ current_child_id' = ou_id
             /\ pc' = "list_parents"
             /\ UNCHANGED raised
    /\ UNCHANGED <<orgVars, max_depth, structure, account_count, walks, passVars, putVars>>

(* --------------------- build_cost_category_rules ----------------------- *)
\* python's order on str: by code point, a proper prefix first
RECURSIVE LexLess(_, _)
LexLess(a, b) ==
    IF Len(b) = 0 THEN FALSE
    ELSE IF Len(a) = 0 THEN TRUE
    ELSE IF a[1] # b[1] THEN a[1] < b[1]
    ELSE LexLess(Tail(a), Tail(b))

\* sorted(keys): the key with i - 1 keys below it comes i-th
Sorted(keys) ==
    LET below == [k \in keys |-> Cardinality({o \in keys : LexLess(o, k)})] @@ EmptyDict
    IN  [i \in 1..Cardinality(keys) |-> CHOOSE k \in keys : below[k] = i - 1]

\* lines 143-152: one rule per category of `ordered` with a non-empty list
RulesFor(org_structure, ordered) ==
    LET HasAccounts(category_name) == Len(org_structure[category_name]) # 0
        kept == SelectSeq(ordered, HasAccounts)
    IN  [i \in 1..Len(kept) |-> CategoryRule(kept[i], org_structure[kept[i]])]

\* a slip: the compiler enforces the cap on the number of rules
BuildCapped(org_structure) ==
    IF DOMAIN org_structure = {} THEN <<>>
    ELSE LET all == RulesFor(org_structure, Sorted(DOMAIN org_structure))
         IN  SubSeq(all, 1, Min(Len(all), RuleLimit))

\* lines 138-155
build_cost_category_rules(org_structure) ==
    IF DOMAIN org_structure = {} THEN <<>>
    ELSE RulesFor(org_structure, Sorted(DOMAIN org_structure))

\* lines 253-257: main compiles the rules and calls put_cost_category
BuildRules ==
    /\ pc = "structure_returned"
    /\ rules' = IF \/ DOMAIN structure = {}
                   \/ \A k \in DOMAIN structure : Len(structure[k]) = 0
                THEN <<>>
                ELSE build_cost_category_rules(structure)
    /\ pc' = "put_cost_category"
    /\ UNCHANGED <<raised, remote_log, orgVars, structVars, passVars, pages, next_token,
                   page_count, list_requests, cost_category_arn, mutations, response,
                   put_result>>

(* ----------------------- find_cost_category_arn ------------------------ *)
\* python truthiness of a string-or-None
Truthy(str) == str # None /\ str # ""

\* line 173: the entry is the one looked for
Matches(definition, cost_category_name) ==
    definition.Name = cost_category_name /\ Truthy(definition.CostCategoryArn)

\* a slip: the scan keeps the last matching entry of the page
LastMatch(definitions, cost_category_name) ==
    IF \E i \in DOMAIN definitions : Matches(definitions[i], cost_category_name)
    THEN CHOOSE i \in DOMAIN definitions :
            /\ Matches(definitions[i], cost_category_name)
            /\ \A j \in DOMAIN definitions :
                   j > i => ~Matches(definitions[j], cost_category_name)
    ELSE 0

\* lines 169-175: index of the first matching entry of a page, 0 if none
FirstMatch(definitions, cost_category_name) ==
    IF \E i \in DOMAIN definitions : Matches(definitions[i], cost_category_name)
    THEN CHOOSE i \in DOMAIN definitions :
            /\ Matches(definitions[i], cost_category_name)
            /\ \A j \in 1..(i - 1) : ~Matches(definitions[j], cost_category_name)
    ELSE 0

\* the remote listing: the page a request with this token gets
PageFor(token) == pages[IF token = NoToken THEN 1 ELSE token]

\* a slip: the cursor is never sent
RequestTokenDropped(token) == NoToken

\* lines 164-166: the token the next request carries
RequestToken(token) == token

\* lines 181-183 and 160-161: put_cost_category starts by locating the
\* resource; `listings` are the listings the remote may hold at that moment
PutCostCategory(listings) ==
    /\ pc = "put_cost_category"
    /\ pages' \in listings
    /\ next_token' = NoToken
    /\ page_count' = 0
    /\ list_requests' = <<>>
    /\ pc' = "list_definitions"
    /\ UNCHANGED <<raised, remote_log, orgVars, structVars, passVars, rules,
                   cost_category_arn, mutations, response, put_result>>

\* lines 162-179: one list_cost_category_definitions request and the scan of
\* its page
ListCostCategoryDefinitions ==
    /\ pc = "list_definitions"
    /\ page_count' = page_count + 1
    /\ list_requests' = Append(list_requests, RequestToken(next_token))
    /\ \/ /\ Raise("ClientError")
          /\ Remote("list_cost_category_definitions", FALSE)
          /\ UNCHANGED <<next_token, cost_category_arn>>
       \/ LET page == PageFor(RequestToken(next_token))
              definitions == page.CostCategoryReferences
              found == FirstMatch(definitions, CostCategoryName)
          IN  /\ IF found # 0
                 THEN /\ cost_category_arn' = definitions[found].CostCategoryArn
                      /\ pc' = "precheck"
                      /\ UNCHANGED next_token
                 ELSE /\ next_token' = page.NextToken
                      /\ IF page.NextToken = NoToken
                         THEN /\ cost_category_arn' = None
                              /\ pc' = "precheck"
                         ELSE /\ pc' = "list_definitions"
                              /\ UNCHANGED cost_category_arn
              /\ Remote("list_cost_category_definitions", TRUE)
              /\ UNCHANGED raised
    /\ UNCHANGED <<orgVars, structVars, passVars, rules, pages, mutations, response,
                   put_result>>

(* -------------------------- put_cost_category -------------------------- *)
\* line 197
NumAccounts(rule) ==
    PyLen(GetItem(GetItem(GetItem(rule, "Rule"), "Dimensions"), "Values"))

\* line 200: the handler of KeyError/TypeError formats its warning with
\* rule.get, which only a dict has
InvalidStructure(rule) ==
    IF rule.type = "dict" THEN "warning" ELSE "AttributeError"

\* lines 196-200: the check of one rule
RuleCheck(rule) ==
    LET num_accounts == NumAccounts(rule) IN
    IF num_accounts.type = "exc" THEN InvalidStructure(rule)
    ELSE IF num_accounts.val = 0 THEN "warning"
    ELSE IF num_accounts.val > AccountLimit THEN "ValueError"
    ELSE "ok"

\* a slip: an empty rule list is refused as well
TooManyOrNoRules(rule_list) == Len(rule_list) > RuleLimit \/ Len(rule_list) = 0

\* line 194
TooManyRules(rule_list) == Len(rule_list) > RuleLimit

\* lines 194-200: None, or the exception the quota check raises
PreCheckOutcome(rule_list) ==
    IF TooManyRules(rule_list) THEN "ValueError"
    ELSE IF \E i \in DOMAIN rule_list :
                RuleCheck(rule_list[i]) \in {"ValueError", "AttributeError"}
    THEN LET first == CHOOSE i \in DOMAIN rule_list :
                /\ RuleCheck(rule_list[i]) \in {"ValueError", "AttributeError"}
                /\ \A j \in 1..(i - 1) :
                       RuleCheck(rule_list[j]) \notin {"ValueError", "AttributeError"}
         IN  RuleCheck(rule_list[first])
    ELSE None

\* lines 186-200
PreCheck ==
    /\ pc = "precheck"
    /\ LET outcome == PreCheckOutcome(rules) IN
       IF outcome # None
       THEN Raise(outcome)
       ELSE /\ pc' = "submit"
            /\ UNCHANGED raised
    /\ UNCHANGED <<remote_log, orgVars, structVars, passVars, putVars>>

\* lines 186-191
CommonArgs(rule_list) ==
    [RuleVersion |-> "CostCategoryExpression.v1",
     Rules |-> rule_list,
     DefaultValue |-> DEFAULT_COST_CATEGORY_VALUE,
     EffectiveStart |-> EffectiveStart]

\* a slip: the update payload also names the category
ApiCallWithName(arn, cost_category_name, rule_list) ==
    IF Truthy(arn)
    THEN [api |-> "update_cost_category_definition",
          params |-> CommonArgs(rule_list) @@ ("CostCategoryArn" :> arn)
                        @@ ("Name" :> cost_category_name)]
    ELSE [api |-> "create_cost_category_definition",
          params |-> CommonArgs(rule_list) @@ ("Name" :> cost_category_name)]

\* lines 204-210: the call chosen and its parameters
ApiCall(arn, cost_category_name, rule_list) ==
    IF Truthy(arn)
    THEN [api |-> "update_cost_category_definition",
          params |-> CommonArgs(rule_list) @@ ("CostCategoryArn" :> arn)]
    ELSE [api |-> "create_cost_category_definition",
          params |-> CommonArgs(rule_list) @@ ("Name" :> cost_category_name)]

\* a slip: the response of the remote call is handed back
PutReturnsResponse(resp) == PyDict(resp)

\* what put_cost_category hands back on success (line 227)
PutReturn(resp) == [type |-> "bool", val |-> TRUE]

\* lines 216-227: the create or update call
Submit ==
    /\ pc = "submit"
    /\ LET call == ApiCall(cost_category_arn, CostCategoryName, rules) IN
       /\ mutations' = Append(mutations, call)
       /\ \/ /\ Raise("ClientError")
             /\ Remote(call.api, FALSE)
             /\ UNCHANGED <<response, put_result>>
          \/ /\ Remote(call.api, TRUE)
             /\ response' =
                    [CostCategoryArn |->
                        IF call.api = "update_cost_category_definition"
                        THEN call.params.CostCategoryArn ELSE "arn:new",
                     EffectiveStart |-> call.params.EffectiveStart]
             /\ put_result' = PutReturn(response')
             /\ pc' = "put_returned"
             /\ UNCHANGED raised
    /\ UNCHANGED <<orgVars, structVars, passVars, rules, pages, next_token, page_count,
                   list_requests, cost_category_arn>>

\* lines 258-259
MainReturn ==
    /\ pc = "put_returned"
    /\ pc' = "done"
    /\ UNCHANGED <<raised, remote_log, orgVars, structVars, passVars, putVars>>

(* --------------------------- specifications ---------------------------- *)
InitOrg ==
    /\ all_accounts \in AccountListInputs
    /\ parents \in [AccountIds \cup OuIds -> ParentsInputs(NoChild)]
    /\ \A c \in OuIds : parents[c] \in ParentsInputs(c)
    /\ \A a \in AccountIds : (\A i \in DOMAIN all_accounts : all_accounts[i] # a) => parents[a] = <<>>
    /\ ou_names \in [OuIds -> UNION {OuNameInputs(o) : o \in OuIds}]
    /\ \A o \in OuIds : ou_names[o] \in OuNameInputs(o)

InitWalk ==
    /\ ou_name_cache = EmptyDict
    /\ account_count = 0
    /\ path_components = <<>>
    /\ current_child_id = NoChild
    /\ walks = <<>>
    /\ path_ous = <<>>
    /\ describe_calls = <<>>
    /\ remote_log = <<>>
    /\ passes = 0
    /\ last_structure = EmptyDict
    /\ last_names = EmptyDict

InitStructure ==
    /\ structure = EmptyDict
    /\ InitWalk

InitPut ==
    /\ pages = <<>>
    /\ next_token = NoToken
    /\ page_count = 0
    /\ list_requests = <<>>
    /\ cost_category_arn = None
    /\ mutations = <<>>
    /\ response = None
    /\ put_result = None

\* a run of main(name, start, depth) against some organization
Init ==
    /\ pc = "main"
    /\ raised = None
    /\ InitOrg
    /\ max_depth \in 1..MaxDepth
    /\ InitStructure
    /\ rules = <<>>
    /\ InitPut

Next ==
    \/ GetOrganizationStructure
    \/ ListAccounts
    \/ ListParents
    \/ DescribeOrganizationalUnit
    \/ BuildRules
    \/ PutCostCategory(SmallListingInputs)
    \/ ListCostCategoryDefinitions
    \/ PreCheck
    \/ Submit
    \/ MainReturn

Spec == Init /\ [][Next]_vars

\* no organization: put_cost_category and find_cost_category_arn are called
\* on their own
NoOrg ==
    /\ all_accounts = <<>>
    /\ parents = [c \in AccountIds \cup OuIds |-> <<>>]
    /\ ou_names = [o \in OuIds |-> ROOT_CATEGORY_NAME]
    /\ max_depth = 1

InitNoOrg ==
    /\ NoOrg
    /\ InitStructure

\* a call put_cost_category(name, rules, default, start) with any rule list
PutInit ==
    /\ pc = "put_cost_category"
    /\ raised = None
    /\ InitNoOrg
    /\ \E kinds \in RuleKindLists, pad \in PadInputs : rules = RuleListOf(kinds, pad)
    /\ InitPut

PutNext ==
    \/ PutCostCategory(SmallListingInputs)
    \/ ListCostCategoryDefinitions
    \/ PreCheck
    \/ Submit

PutSpec == PutInit /\ [][PutNext]_vars

\* the locator against any listing
FindInit ==
    /\ pc = "put_cost_category"
    /\ raised = None
    /\ InitNoOrg
    /\ rules \in {<<>>, <<RuleOfKind("one")>>}
    /\ InitPut

FindNext ==
    \/ PutCostCategory(ListingInputs)
    \/ ListCostCategoryDefinitions
    \/ PreCheck
    \/ Submit

FindSpec == FindInit /\ [][FindNext]_vars

\* the orders in which list_accounts may enumerate the same accounts
Orders(accounts) ==
    {s \in [DOMAIN accounts -> {accounts[i] : i \in DOMAIN accounts}] :
        \A i, j \in DOMAIN s : i # j => s[i] # s[j]}

\* lines 82-86: get_organization_structure is called again in the same
\* process, after a pass that returned or raised; in between OUs may have been
\* renamed and the enumeration order may have changed
CallAgain ==
    /\ pc \in {"structure_returned", "raised"}
    /\ passes < MaxPasses
    /\ all_accounts' \in Orders(all_accounts)
    /\ ou_names' \in [OuIds -> UNION {OuNameInputs(o) : o \in OuIds}]
    /\ \A o \in OuIds : ou_names'[o] \in OuNameInputs(o)
    /\ last_structure' = IF pc = "structure_returned" THEN structure ELSE last_structure
    /\ last_names' = IF pc = "structure_returned" THEN ou_names ELSE last_names
    /\ raised' = None
    /\ remote_log' = <<>>
    /\ StartPass
    /\ UNCHANGED parents

\* organizations with a well-formed hierarchy: every account under the root
\* or an OU, the first OU under the root, the second under the root or the
\* first
PassInit ==
    /\ pc = "main"
    /\ raised = None
    /\ all_accounts \in AccountListInputs
    /\ parents \in [AccountIds \cup OuIds -> ParentsInputs(NoChild)]
    /\ \A a \in AccountIds :
            IF \E i \in DOMAIN all_accounts : all_accounts[i] = a
            THEN parents[a] \in {<<RootParent>>} \cup {<<OuParent(o)>> : o \in OuIds}
            ELSE parents[a] = <<>>
    /\ parents[<<"ou", 1>>] = <<RootParent>>
    /\ parents[<<"ou", 2>>] \in {<<RootParent>>, <<OuParent(<<"ou", 1>>)>>}
    /\ ou_names \in [OuIds -> UNION {OuNameInputs(o) : o \in OuIds}]
    /\ \A o \in OuIds : ou_names[o] \in OuNameInputs(o)
    /\ max_depth \in 1..MaxDepth
    /\ InitStructure
    /\ rules = <<>>
    /\ InitPut

PassNext ==
    \/ GetOrganizationStructure
    \/ ListAccounts
    \/ ListParents
    \/ DescribeOrganizationalUnit
    \/ CallAgain

PassSpec == PassInit /\ [][PassNext]_vars

\* structures handed to build_cost_category_rules: any of the labels "A",
\* "A-B", "B", "Root" with up to MaxAccounts accounts (or none), and one
\* structure over both provider caps: RuleLimit + 1 labels, the first of them
\* with AccountLimit + 1 accounts
LabelInputs == {<<65>>, <<65, 45, 66>>, <<66>>, ROOT_CATEGORY_NAME}
SmallStructures ==
    UNION {[labels -> AccountListInputs] : labels \in SUBSET LabelInputs}
\* "L" followed by the character of code i
BigLabel(i) == <<76, i>>
BigStructure ==
    [label \in {BigLabel(i) : i \in 1..(RuleLimit + 1)} |->
        IF label = BigLabel(1)
        THEN [i \in 1..(AccountLimit + 1) |-> <<"acct", i>>]
        ELSE <<<<"acct", 1>>>>]

\* lines 138-155 called on a structure
CompileRules ==
    /\ pc = "build"
    /\ rules' = build_cost_category_rules(structure)
    /\ pc' = "built"
    /\ UNCHANGED <<raised, remote_log, orgVars, structVars, passVars, pages, next_token,
                   page_count, list_requests, cost_category_arn, mutations, response,
                   put_result>>

BuildInit ==
    /\ pc = "build"
    /\ raised = None
    /\ NoOrg
    /\ InitWalk
    /\ structure \in SmallStructures \cup {BigStructure}
    /\ rules = <<>>
    /\ InitPut

BuildNext == CompileRules

BuildSpec == BuildInit /\ [][BuildNext]_vars

(* ------------------------------ claims --------------------------------- *)
\* the rule is well-formed and lists more ids than one rule may
OverAccountLimit(rule) ==
    /\ rule.type = "dict"
    /\ "Rule" \in DOMAIN rule.val
    /\ rule.val.Rule.type = "dict"
    /\ "Dimensions" \in DOMAIN rule.val.Rule.val
    /\ rule.val.Rule.val.Dimensions.type = "dict"
    /\ "Values" \in DOMAIN rule.val.Rule.val.Dimensions.val
    /\ rule.val.Rule.val.Dimensions.val.Values.type = "list"
    /\ Len(rule.val.Rule.val.Dimensions.val.Values.val) > AccountLimit

QuotaExceeded ==
    \/ Len(rules) > RuleLimit
    \/ \E i \in DOMAIN rules : OverAccountLimit(rules[i])

\* the locator returned (a handle or not-found) and the quota check has run
LocatorReturned ==
    \/ pc \in {"submit", "put_returned", "done"}
    \/ pc = "raised" /\ raised # "ClientError"
    \/ pc = "raised" /\ mutations # <<>>

\* C1: a put_cost_category call whose rule list has more than 500 rules, or
\* a well-formed rule with more than 1000 account ids, ends in ValueError once
\* the locator has returned, and issues no create and no update call.
C1_QuotaStopsCall ==
    QuotaExceeded =>
        /\ mutations = <<>>
        /\ LocatorReturned => (pc = "raised" /\ raised = "ValueError")

\* C2: once validation has passed, at most one mutating call is issued; with
\* a handle from the locator it is update_cost_category_definition carrying
\* that handle as CostCategoryArn and no Name; with not-found it is
\* create_cost_category_definition carrying the requested Name and no
\* CostCategoryArn; a returned call has issued exactly one.
C2_BranchSelection ==
    /\ Len(mutations) <= 1
    /\ pc = "put_returned" => Len(mutations) = 1
    /\ \A i \in DOMAIN mutations :
        LET call == mutations[i] IN
        IF cost_category_arn # None
        THEN /\ call.api = "update_cost_category_definition"
             /\ "CostCategoryArn" \in DOMAIN call.params
             /\ call.params.CostCategoryArn = cost_category_arn
             /\ "Name" \notin DOMAIN call.params
        ELSE /\ call.api = "create_cost_category_definition"
             /\ "Name" \in DOMAIN call.params
             /\ call.params.Name = CostCategoryName
             /\ "CostCategoryArn" \notin DOMAIN call.params

C2_Witness ==
    /\ pc = "put_returned"
    /\ cost_category_arn = "arn:1"
    /\ Len(rules) = RuleLimit
    /\ mutations[1].params.Rules = rules

\* the places of the structure where an account id is listed
Occurrences(account_id) ==
    {<<k, i>> \in UNION {{k} \X DOMAIN structure[k] : k \in DOMAIN structure} :
        structure[k][i] = account_id}

Enumerated == {all_accounts[i] : i \in DOMAIN all_accounts}

\* C3: the structure get_organization_structure returns is a partition of
\* the enumerated accounts: every enumerated id is listed exactly once, under
\* exactly one label, and no other id is listed.
C3_Partition ==
    pc = "structure_returned" =>
        /\ \A a \in Enumerated : Cardinality(Occurrences(a)) = 1
        /\ \A k \in DOMAIN structure : \A i \in DOMAIN structure[k] :
               structure[k][i] \in Enumerated

C3_Witness ==
    /\ pc = "structure_returned"
    /\ \E k \in DOMAIN structure : Len(structure[k]) >= 2
    /\ Cardinality(DOMAIN structure) >= 2

\* the first k components of a path joined with the separator, k >= 1
RECURSIVE JoinFirst(_, _)
JoinFirst(path, k) ==
    IF k = 1 THEN path[1]
    ELSE JoinFirst(path, k - 1) \o CATEGORY_NAME_SEPARATOR \o path[k]

ExpectedLabel(path, depth) ==
    IF Len(path) = 0 THEN ROOT_CATEGORY_NAME
    ELSE JoinFirst(path, Min(depth, Len(path)))

Filed(account_id, label) ==
    /\ label \in DOMAIN structure
    /\ \E i \in DOMAIN structure[label] : structure[label][i] = account_id

\* C4: an account whose resolved path has length L is filed, at depth D,
\* under "Root" if L = 0 and otherwise under the first min(D, L) components
\* joined with "-"; for D >= L that is the whole path joined, whatever D is.
C4_Label ==
    \A i \in DOMAIN walks :
        LET w == walks[i] IN
        /\ w.label = ExpectedLabel(w.path, max_depth)
        /\ (max_depth >= Len(w.path) /\ Len(w.path) > 0) =>
               w.label = JoinFirst(w.path, Len(w.path))
        /\ pc = "structure_returned" => Filed(w.account, w.label)

C4_Witness ==
    /\ pc = "structure_returned"
    /\ \E i \in DOMAIN walks : Len(walks[i].path) > max_depth
    /\ \E i \in DOMAIN walks : Len(walks[i].path) = 0

\* C5: the list under "Root" holds only accounts whose resolved path is
\* empty, whatever the display names of the OUs.
C5_RootReserved ==
    pc = "structure_returned" =>
        \A i \in DOMAIN walks :
            Filed(walks[i].account, ROOT_CATEGORY_NAME) => Len(walks[i].path) = 0

\* C6 as claimed: an account whose walk met a parent of an unexpected type
\* is filed under "Root", also when OU names had been collected before.
C6_UnexpectedToRoot ==
    \A i \in DOMAIN walks :
        walks[i].stop = "unexpected" => walks[i].label = ROOT_CATEGORY_NAME

\* C6, amended: a parent of an unexpected type ends the walk without an
\* error, the run goes on, and the account is labelled from the OU names
\* collected so far, taken root-to-leaf and cut at the depth; with none
\* collected it is filed under "Root".
C6_UnexpectedKeepsPath ==
    /\ \A i \in DOMAIN walks :
        LET w == walks[i] IN
        w.stop = "unexpected" =>
            /\ Len(w.path) = Len(w.collected)
            /\ \A j \in DOMAIN w.path : w.path[j] = w.collected[Len(w.collected) + 1 - j]
            /\ w.label = ExpectedLabel(w.path, max_depth)
            /\ w.collected = <<>> => w.label = ROOT_CATEGORY_NAME
            /\ pc = "structure_returned" => Filed(w.account, w.label)
    /\ (walks # <<>> /\ walks[Len(walks)].stop = "unexpected") =>
            \/ pc \in {"list_parents", "describe_ou"} /\ raised = None
                    /\ account_count = Len(walks) + 1
            \/ pc = "raised" /\ account_count = Len(walks) + 1
            \/ Len(walks) = Len(all_accounts)
    /\ pc = "structure_returned" => Len(walks) = Len(all_accounts) /\ raised = None

C6_Witness ==
    /\ pc = "structure_returned"
    /\ Len(walks) >= 2
    /\ walks[1].stop = "unexpected"
    /\ walks[1].collected # <<>>
    /\ walks[1].label # ROOT_CATEGORY_NAME

\* C7: when list_parents returns no parent after OU names were collected,
\* no error is raised, the names are dropped, the account is filed under
\* "Root", and the accounts after it are still processed.
C7_BrokenChain ==
    /\ \A i \in DOMAIN walks :
        LET w == walks[i] IN
        (w.stop = "broken") =>
            /\ w.collected # <<>>
            /\ w.path = <<>>
            /\ w.label = ROOT_CATEGORY_NAME
            /\ pc = "structure_returned" => Filed(w.account, ROOT_CATEGORY_NAME)
    /\ (walks # <<>> /\ walks[Len(walks)].stop = "broken") =>
            \/ pc = "list_parents" /\ raised = None /\ account_count = Len(walks) + 1
            \/ pc = "describe_ou" /\ raised = None /\ account_count = Len(walks) + 1
            \/ pc = "raised" /\ account_count = Len(walks) + 1
            \/ Len(walks) = Len(all_accounts)
    /\ pc = "structure_returned" => Len(walks) = Len(all_accounts) /\ raised = None

C7_Witness ==
    /\ pc = "structure_returned"
    /\ Len(walks) >= 2
    /\ walks[1].stop = "broken"
    /\ Len(walks[1].collected) >= 2

\* C8: the returned structure always has the key "Root"; with no account it
\* is exactly {"Root": []}.
C8_RootKey ==
    pc = "structure_returned" =>
        /\ ROOT_CATEGORY_NAME \in DOMAIN structure
        /\ all_accounts = <<>> =>
               (DOMAIN structure = {ROOT_CATEGORY_NAME} /\ structure[ROOT_CATEGORY_NAME] = <<>>)

C8_Witness ==
    /\ pc = "structure_returned"
    /\ all_accounts # <<>>
    /\ ROOT_CATEGORY_NAME \in DOMAIN structure
    /\ structure[ROOT_CATEGORY_NAME] = <<>>


\* the pages of the listing holding an entry with the requested name and a
\* non-empty handle
MatchPages ==
    {p \in DOMAIN pages :
        \E e \in DOMAIN pages[p].CostCategoryReferences :
            LET entry == pages[p].CostCategoryReferences[e] IN
            entry.Name = CostCategoryName /\ entry.CostCategoryArn \notin {"", None}}

FirstMatchPage == CHOOSE p \in MatchPages : \A q \in MatchPages : p <= q

\* the handle of the first such entry, in page order
FirstMatchArn ==
    LET entries == pages[FirstMatchPage].CostCategoryReferences
        hits == {e \in DOMAIN entries :
                    entries[e].Name = CostCategoryName
                        /\ entries[e].CostCategoryArn \notin {"", None}}
    IN  entries[CHOOSE e \in hits : \A o \in hits : e <= o].CostCategoryArn

\* find_cost_category_arn has returned to put_cost_category
FindReturned == pc = "precheck" \/ LocatorReturned

\* C9: find_cost_category_arn returns the handle of the first entry, in
\* page order, with the requested name and a non-empty handle; request i asks
\* for page i, and with that entry on page k exactly k requests are issued,
\* none for a later page.
C9_FirstMatchNoLaterPage ==
    MatchPages # {} =>
        /\ page_count <= FirstMatchPage
        /\ Len(list_requests) = page_count
        /\ \A i \in DOMAIN list_requests :
               list_requests[i] = (IF i = 1 THEN NoToken ELSE i)
        /\ FindReturned =>
               /\ cost_category_arn = FirstMatchArn
               /\ page_count = FirstMatchPage

C9_Witness ==
    /\ pc = "precheck"
    /\ Len(pages) = 3
    /\ MatchPages = {2, 3}
    /\ page_count = 2
    /\ cost_category_arn = pages[2].CostCategoryReferences[1].CostCategoryArn
    /\ cost_category_arn # pages[3].CostCategoryReferences[1].CostCategoryArn

\* C10: on a listing whose last page alone has no cursor, the locator issues
\* at most one request per page (so it stops), never asks twice for a page,
\* and returns not-found exactly when no page has an entry with the
\* requested name and a non-empty handle; a single empty page gives
\* not-found after one request.
C10_TerminatesNotFound ==
    /\ pages # <<>> => page_count <= Len(pages)
    /\ pc = "list_definitions" => page_count < Len(pages)
    /\ \A i, j \in DOMAIN list_requests : i # j => list_requests[i] # list_requests[j]
    /\ FindReturned => (cost_category_arn = None <=> MatchPages = {})
    /\ (FindReturned /\ Len(pages) = 1 /\ pages[1].CostCategoryReferences = <<>>) =>
           (cost_category_arn = None /\ page_count = 1)

C10_Witness ==
    /\ pc = "precheck"
    /\ Len(pages) = 3
    /\ page_count = 3
    /\ cost_category_arn = None
    /\ \E p \in DOMAIN pages : \E e \in DOMAIN pages[p].CostCategoryReferences :
           pages[p].CostCategoryReferences[e].Name = CostCategoryName

\* the label and the account ids of a compiled rule
RuleValue(rule) == rule.val.Value
RuleAccounts(rule) == rule.val.Rule.val.Dimensions.val.Values.val

NonEmptyLabels(struct) == {k \in DOMAIN struct : struct[k] # <<>>}

\* C11: build_cost_category_rules returns its rules in strictly ascending
\* order of label, exactly one rule for every label with a non-empty list,
\* carrying exactly that list, and none for a label with an empty list; more
\* than 500 rules or more than 1000 accounts in a rule drop nothing.
C11_SortedComplete ==
    pc = "built" =>
        /\ \A i \in 1..(Len(rules) - 1) :
               LexLess(RuleValue(rules[i]), RuleValue(rules[i + 1]))
        /\ {RuleValue(rules[i]) : i \in DOMAIN rules} = NonEmptyLabels(structure)
        /\ Len(rules) = Cardinality(NonEmptyLabels(structure))
        /\ \A i \in DOMAIN rules :
               RuleAccounts(rules[i]) = structure[RuleValue(rules[i])]

C11_Witness ==
    /\ pc = "built"
    /\ Len(rules) = RuleLimit + 1
    /\ \E i \in DOMAIN rules : Len(RuleAccounts(rules[i])) = AccountLimit + 1

MutatingApis == {"create_cost_category_definition", "update_cost_category_definition"}

\* C12: a run of main issues at most one create/update call; a remote call
\* that fails is the last remote call of the run (nothing is retried), and
\* after a failure before submission no create or update is ever issued.
C12_NoRetryOneMutation ==
    /\ Len(mutations) <= 1
    /\ Cardinality({i \in DOMAIN remote_log : remote_log[i].api \in MutatingApis})
           = Len(mutations)
    /\ \A i \in DOMAIN remote_log : ~remote_log[i].ok => i = Len(remote_log)
    /\ (\E i \in DOMAIN remote_log :
            ~remote_log[i].ok /\ remote_log[i].api \notin MutatingApis) =>
           mutations = <<>>
    /\ (\E i \in DOMAIN remote_log : ~remote_log[i].ok) => pc = "raised"

C12_Witness ==
    /\ pc = "raised"
    /\ Len(remote_log) >= 4
    /\ remote_log[Len(remote_log)].api = "describe_organizational_unit"
    /\ ~remote_log[Len(remote_log)].ok
    /\ mutations = <<>>

\* C13: with no account in the organization (so every group is empty) main
\* hands put_cost_category an empty rule list, the quota check passes, and a
\* run without a remote failure issues exactly one mutating call with
\* Rules = []: update when the locator found the name, create otherwise.
C13_EmptyRulesStillSubmitted ==
    (all_accounts = <<>> /\ pc \notin {"main", "list_accounts", "structure_returned"}) =>
        /\ rules = <<>>
        /\ raised \in {None, "ClientError"}
        /\ \A i \in DOMAIN mutations :
            /\ mutations[i].params.Rules = <<>>
            /\ mutations[i].api = IF MatchPages # {}
                                  THEN "update_cost_category_definition"
                                  ELSE "create_cost_category_definition"
        /\ pc \in {"put_returned", "done"} => Len(mutations) = 1

C13_Witness ==
    /\ all_accounts = <<>>
    /\ pc = "done"
    /\ structure = (ROOT_CATEGORY_NAME :> <<>>)
    /\ mutations[1].api = "update_cost_category_definition"
    /\ mutations[1].params.Rules = <<>>

\* the name was returned for the OU by a lookup of the running pass
LookedUp(ou_id, name) ==
    \E c \in DOMAIN describe_calls :
        /\ describe_calls[c].ok
        /\ describe_calls[c].ou = ou_id
        /\ describe_calls[c].name = name

\* C14: in every pass of get_organization_structure, also one that follows
\* an aborted pass, the cache is empty when the pass starts, and every OU
\* name cached or collected for a label was returned by a name lookup of
\* that same pass, so it is the OU's name as of this pass even after a
\* rename between passes.
C14_CachePerPass ==
    /\ pc = "list_accounts" => ou_name_cache = EmptyDict
    /\ \A o \in DOMAIN ou_name_cache :
           LookedUp(o, ou_name_cache[o]) /\ ou_name_cache[o] = ou_names[o]
    /\ pc \in {"list_parents", "describe_ou"} =>
           \A j \in DOMAIN path_components :
               /\ LookedUp(path_ous[j], path_components[j])
               /\ path_components[j] = ou_names[path_ous[j]]
    /\ \A i \in DOMAIN walks : \A j \in DOMAIN walks[i].collected :
           /\ LookedUp(walks[i].ous[j], walks[i].collected[j])
           /\ walks[i].collected[j] = ou_names[walks[i].ous[j]]

C14_Witness ==
    /\ passes >= 2
    /\ pc = "structure_returned"
    /\ DOMAIN last_names # {}
    /\ \E i \in DOMAIN walks : \E j \in DOMAIN walks[i].ous :
           ou_names[walks[i].ous[j]] # last_names[walks[i].ous[j]]

\* the labels of a rule list, in order
RuleLabels(rs) == [i \in DOMAIN rs |-> RuleValue(rs[i])]

\* the accounts of each rule of a rule list, as sets
RuleAccountSets(rs) ==
    [i \in DOMAIN rs |-> {RuleAccounts(rs[i])[k] : k \in DOMAIN RuleAccounts(rs[i])}]

\* the previous pass returned and the organization is as it was then: same
\* accounts, hierarchy, OU names and depth; only the enumeration order may
\* differ
SameOrganization ==
    /\ passes >= 2
    /\ pc = "structure_returned"
    /\ DOMAIN last_names # {}
    /\ last_names = ou_names

C15_ReturnsResponse ==
    pc = "put_returned" =>
        /\ put_result.type = "dict"
        /\ put_result.val.CostCategoryArn = response.CostCategoryArn
        /\ put_result.val.EffectiveStart = response.EffectiveStart

\* C15 as the code has it: a successful put_cost_category returns True and
\* nothing else; the response of the create or update call carries the handle
\* and the effective-start value, and the returned value does not.
C15_ReturnsTrue ==
    /\ pc = "put_returned" =>
           /\ put_result = [type |-> "bool", val |-> TRUE]
           /\ Len(mutations) = 1
           /\ DOMAIN response = {"CostCategoryArn", "EffectiveStart"}
           /\ response.EffectiveStart = EffectiveStart
    /\ pc # "put_returned" => put_result = None

C15_Witness ==
    /\ pc = "put_returned"
    /\ mutations[1].api = "create_cost_category_definition"
    /\ response.CostCategoryArn = "arn:new"
    /\ put_result.val = TRUE

\* C16: the parent-chain walk stops for every parent relation over the OUs,
\* also one in which an OU is its own ancestor. The parents do not change
\* during a pass and the walk keeps no record of where it has been, so a
\* walk that comes back to an OU repeats the same steps for ever: the walk
\* stops exactly when it never goes through the same OU twice.
C16_WalkStops ==
    \A i, j \in DOMAIN path_ous : i # j => path_ous[i] # path_ous[j]

\* a rule the quota check can measure: a dict with Rule, Dimensions and a
\* Values that has a length
WellFormed(rule) ==
    /\ rule.type = "dict"
    /\ "Rule" \in DOMAIN rule.val
    /\ rule.val.Rule.type = "dict"
    /\ "Dimensions" \in DOMAIN rule.val.Rule.val
    /\ rule.val.Rule.val.Dimensions.type = "dict"
    /\ "Values" \in DOMAIN rule.val.Rule.val.Dimensions.val
    /\ rule.val.Rule.val.Dimensions.val.Values.type = "list"

\* C17: a malformed rule (a dict lacking Rule/Dimensions/Values, a Values
\* without a length, a rule that is not a dict) never makes put_cost_category
\* fail: when no quota is exceeded the only error the call can end in is a
\* remote failure, the quota check lets the call through, and the create or
\* update call carries the rule list unchanged.
C17_MalformedSkipped ==
    ((\E i \in DOMAIN rules : ~WellFormed(rules[i])) /\ ~QuotaExceeded) =>
        /\ raised \in {None, "ClientError"}
        /\ \A m \in DOMAIN mutations : mutations[m].params.Rules = rules

\* C18: in one pass describe_organizational_unit is issued at most once for
\* an OU id, however many walks go through that OU, and every name collected
\* for an OU is the one that lookup returned.
C18_OneLookupPerOu ==
    /\ \A c, d \in DOMAIN describe_calls :
           c # d => describe_calls[c].ou # describe_calls[d].ou
    /\ \A i \in DOMAIN walks : \A j \in DOMAIN walks[i].collected :
           LookedUp(walks[i].ous[j], walks[i].collected[j])

C18_Witness ==
    /\ pc = "structure_returned"
    /\ Len(describe_calls) = 1
    /\ \E i, j \in DOMAIN walks :
           /\ i # j
           /\ \E k \in DOMAIN walks[i].ous, l \in DOMAIN walks[j].ous :
                  walks[i].ous[k] = walks[j].ous[l]

====
